---------------------------- MODULE Spec2Model ----------------------------
(***************************************************************************)
(* UrbanMart sales analytics: the load-and-derive step, the dashboard      *)
(* filters, the grouped rollups, the Streamlit data cache and the CLI KPI  *)
(* functions of the three project directories.                             *)
(*                                                                         *)
(* Money is counted in mills (1/1000 of a currency unit).  The CSV holds   *)
(* prices and discounts with two decimals, so every raw amount is a        *)
(* multiple of 10 mills; the 30% cost of a whole-cent amount is then an    *)
(* exact number of mills.  Dates are day numbers, day 1 = 2025-01-01.      *)
(***************************************************************************)
EXTENDS Integers, Sequences, FiniteSets, TLC

\* ---------------------------------------------------------------- bounds
MaxRows == 2
MaxDate == 2
MaxRestrict == 2
MaxLoads == 2

\* ------------------------------------------------------- value domains
Stores == {"Downtown", "Uptown"}
Channels == {"In-store", "Online"}
Categories == {"Beverages", "Snacks"}
Segments == {"Regular", "Loyal"}
PaymentMethods == {"Cash", "UPI"}
DateSegments == {"Daily", "Weekly", "Monthly", "Quarterly", "Yearly"}

\* quantities, and unit prices and discounts in mills
Quantities == {1, 2}
UnitPrices == {0, 10}
Discounts == {0, 10}

\* the store master data: store_location -> store_id
StoreIdOf(loc) == IF loc = "Downtown" THEN "S1" ELSE "S2"

\* the product master data: product_category -> product_name
ProductOf(cat) == IF cat = "Beverages" THEN "Green Tea" ELSE "Potato Chips"

\* timestamps are day numbers; NaT is the missing timestamp
NaT == 0
Dates == 1..MaxDate

\* days of the calendar the trends are read on: 2025-01-01, 2025-01-05,
\* 2025-01-06, 2025-02-01, 2025-12-29 and 2026-01-01
TrendDays == {1, 5, 6, 32, 363, 366}

\* the timestamps a parsed date cell can hold
Timestamps == Dates \cup TrendDays

\* the calendar fields of day number d of the years 2025 and 2026, as
\* Series.dt computes them: year, month, quarter, the ISO week number
\* (dt.isocalendar().week) and the day of the month
Calendar(d) ==
  LET year == IF d <= 365 THEN 2025 ELSE 2026
      doy == IF d <= 365 THEN d ELSE d - 365
      starts == <<0, 31, 59, 90, 120, 151, 181, 212, 243, 273, 304, 334>>
      month == Cardinality({ m \in 1..12 : starts[m] < doy })
      weekday == ((d + 1) % 7) + 1
      thursday == d - weekday + 4
  IN  [year |-> year, month |-> month,
       day |-> IF month = 0 THEN 0 ELSE doy - starts[month],
       quarter |-> ((month + 2) \div 3),
       week |-> IF thursday <= 365 THEN ((thursday - 1) \div 7) + 1
                ELSE ((thursday - 366) \div 7) + 1]

\* the text of a date cell of the CSV: "yyyy-mm-dd" is the number yyyymmdd
DateText(d) == Calendar(d).year * 10000 + Calendar(d).month * 100 + Calendar(d).day

\* a date cell of the CSV that is not a calendar date
BadDate == -1

RawDates == { DateText(d) : d \in Dates } \cup {BadDate}

\* one line item of urbanmart_sales.csv
BaseRow ==
  [transaction_id |-> 1, bill_id |-> 1, date |-> DateText(1), store_id |-> "S1",
   store_location |-> "Downtown", customer_id |-> 1,
   customer_segment |-> "Regular", product_category |-> "Beverages",
   product_name |-> "Green Tea", quantity |-> 1, unit_price |-> 10,
   payment_method |-> "Cash", discount_applied |-> 0, channel |-> "In-store"]

RawColumns == DOMAIN BaseRow

\* line items that differ from BaseRow in one filtered dimension
DimRows ==
  { [BaseRow EXCEPT !.date = d] : d \in RawDates }
  \cup { [BaseRow EXCEPT !.store_location = s, !.store_id = StoreIdOf(s)] :
         s \in Stores }
  \cup { [BaseRow EXCEPT !.channel = ch] : ch \in Channels }
  \cup { [BaseRow EXCEPT !.product_category = c, !.product_name = ProductOf(c)] :
         c \in Categories }
  \cup { [BaseRow EXCEPT !.customer_segment = g] : g \in Segments }
  \cup { [BaseRow EXCEPT !.payment_method = p] : p \in PaymentMethods }

\* line items that vary in the measures and in one grouping dimension
MeasureRows ==
  { [r EXCEPT !.quantity = q, !.unit_price = p, !.discount_applied = d] :
      q \in Quantities, p \in UnitPrices, d \in Discounts,
      r \in { [BaseRow EXCEPT !.store_location = s, !.store_id = StoreIdOf(s)] :
                s \in Stores }
            \cup { [BaseRow EXCEPT !.product_category = c,
                                   !.product_name = ProductOf(c)] :
                     c \in Categories } }

\* all tables of at most MaxRows rows drawn from S
TablesOf(S) == UNION { [1..n -> S] : n \in 0..MaxRows }

\* ------------------------------------------------------ table helpers
RECURSIVE SumCol(_, _)
\* Series.sum() of one numeric column
SumCol(t, col) ==
  IF t = <<>> THEN 0 ELSE Head(t)[col] + SumCol(Tail(t), col)

\* the column names of a non-empty table
ColumnsOf(t) == IF t = <<>> THEN {} ELSE DOMAIN t[1]

\* the distinct values of a column
Unique(t, col) == { t[i][col] : i \in 1..Len(t) }

\* a count of the cells of a column, equal ones counted again
NUnique_CountRows(t, col) == Len(t)

\* Series.nunique()
NUnique(t, col) == Cardinality(Unique(t, col))

\* the rows of t whose col cell equals v, in table order
RowsWhere(t, col, v) == SelectSeq(t, LAMBDA r : r[col] = v)

\* a record like r with one more (or overwritten) column
WithCol(r, col, v) ==
  [c \in (DOMAIN r) \cup {col} |-> IF c = col THEN v ELSE r[c]]

\* ------------------------------------------------------------ numbers
\* n / d rounded to the nearest integer, ties to the even neighbour (d > 0)
RoundHalfEven(n, d) ==
  LET q == n \div d
      r == n - q * d
  IN  IF 2 * r < d THEN q
      ELSE IF 2 * r > d THEN q + 1
      ELSE IF q % 2 = 0 THEN q ELSE q + 1

\* Python round(x, 2) of an amount in mills
Round2(x) == 10 * RoundHalfEven(x, 10)

\* a float: the number n / d, NaN, or a signed infinity
Num(n, d) == <<"num", n, d>>
NaN == <<"nan", 0, 1>>
Inf(sign) == <<"inf", sign, 1>>

IsZero(x) == x[1] = "num" /\ x[2] = 0

\* float division n / d of numpy and pandas: dividing by zero gives NaN or an
\* infinity (with a warning), never an exception
FloatDiv(n, d) ==
  IF d = 0
  THEN IF n = 0 THEN NaN ELSE IF n > 0 THEN Inf(1) ELSE Inf(-1)
  ELSE IF d > 0 THEN Num(n, d) ELSE Num(0 - n, 0 - d)

\* Series.round(2): NaN and the infinities stay what they are
RoundSeries2(x) ==
  IF x[1] = "num" THEN Num(RoundHalfEven(x[2] * 100, x[3]), 100) ELSE x

\* (num / den * 100).round(2), a percentage
PctDiv(num, den) == RoundSeries2(FloatDiv(num * 100, den))

\* (amount / count).round(2) in currency units, the amount given in mills
AmountDiv(mills, count) == RoundSeries2(FloatDiv(mills, 1000 * count))

\* ----------------------------------------------------------- calendar
DayNames ==
  <<"Monday", "Tuesday", "Wednesday", "Thursday", "Friday", "Saturday", "Sunday">>

\* Series.dt.day_name(); day 1 is Wednesday 2025-01-01, a missing timestamp
\* has no day name
DayName(d) == IF d = NaT THEN "NaN" ELSE DayNames[((d + 1) % 7) + 1]

\* a conversion that parses date texts only: a timestamp becomes NaT
ToDatetime_TextOnly(x) ==
  IF \E d \in Timestamps : DateText(d) = x
  THEN CHOOSE d \in Timestamps : DateText(d) = x
  ELSE NaT

\* pd.to_datetime of one cell: a timestamp stays, a date text is parsed, and
\* any other cell becomes NaT (errors="coerce")
ToDatetime(x) ==
  IF x \in Timestamps \cup {NaT} THEN x
  ELSE IF \E d \in Timestamps : DateText(d) = x
       THEN CHOOSE d \in Timestamps : DateText(d) = x
       ELSE NaT

\* pd.to_datetime(column) without errors="coerce" raises when a cell is
\* neither a timestamp nor a date text
ToDatetimeRaises(t) ==
  \E i \in 1..Len(t) :
     t[i].date \notin Timestamps \cup {NaT} \cup { DateText(d) : d \in Timestamps }

\* ------------------------------------------------------- metric deriver
\* a cost ratio of 0.03 in place of 0.30
CostOf_Ratio003(gross) == (gross * 3) \div 100

\* df['cost'] = df['quantity'] * df['unit_price'] * 0.30
CostOf(gross) == (gross * 30) \div 100

\* the columns load_data of Mini_Project/app.py adds to one row; the texts
\* 'yyyy-mm' of year_month and 'yyyyQq' of year_quarter are the numbers yyyymm
\* and yyyyq, which sort as the texts do
DeriveRowMini(r) ==
  LET gross == r.quantity * r.unit_price
      line == gross - r.discount_applied
      cost == CostOf(gross)
      profit == line - cost
      cal == Calendar(ToDatetime(r.date))
  IN  [c \in (DOMAIN r) \cup {"line_revenue", "gross_revenue", "total_discount",
                              "cost", "profit", "profit_margin", "day_of_week",
                              "week", "month", "quarter", "year", "year_month",
                              "year_quarter"} |->
         CASE c = "line_revenue" -> line
           [] c = "week" -> cal.week
           [] c = "month" -> cal.month
           [] c = "quarter" -> cal.quarter
           [] c = "year" -> cal.year
           [] c = "year_month" -> cal.year * 100 + cal.month
           [] c = "year_quarter" -> cal.year * 10 + cal.quarter
           [] c = "gross_revenue" -> gross
           [] c = "total_discount" -> r.discount_applied
           [] c = "cost" -> cost
           [] c = "profit" -> profit
           [] c = "profit_margin" -> PctDiv(profit, line)
           [] c = "date" -> ToDatetime(r.date)
           [] c = "day_of_week" -> DayName(ToDatetime(r.date))
           [] OTHER -> r[c]]

\* load_data() of Mini_Project/app.py, the body under @st.cache_data
load_data_mini(t) == [i \in 1..Len(t) |-> DeriveRowMini(t[i])]

\* the columns load_data of urbanmart_final_project/app.py (and of
\* urbanmart_streamlit_project/app.py) adds to one row
DeriveRowFinal(r) ==
  [c \in (DOMAIN r) \cup {"line_revenue", "day_of_week"} |->
     CASE c = "line_revenue" -> r.quantity * r.unit_price - r.discount_applied
       [] c = "date" -> ToDatetime(r.date)
       [] c = "day_of_week" -> DayName(ToDatetime(r.date))
       [] OTHER -> r[c]]

\* load_data(filepath) of urbanmart_final_project/app.py
load_data_final(t) == [i \in 1..Len(t) |-> DeriveRowFinal(t[i])]

\* ------------------------------------------------------ filter evaluator
\* the end date left out of the range
InDateRange_ExclusiveEnd(r, start, end) ==
  r.date # NaT /\ r.date >= start /\ r.date < end

\* the boolean mask (date >= start) & (date <= end); a comparison with a
\* missing timestamp is False
InDateRange(r, start, end) == r.date # NaT /\ r.date >= start /\ r.date <= end

\* an isin that holds for every cell once the list is not empty
IsIn_AnyOfNonEmpty(v, values) == values # {}

\* Series.isin(values)
IsIn(v, values) == v \in values

\* apply_filters whose "Weekly" arm keeps every date
apply_filters_WeeklyKeepsAll(t, date_segment, custom_start, custom_end, stores, channel, categories, segments, payment_methods) ==
  LET ranged == SelectSeq(t, LAMBDA r : r.date # NaT /\ r.date >= custom_start
                                        /\ r.date <= custom_end)
      f1 == IF date_segment = "Weekly" THEN t ELSE ranged
      f2 == IF stores # {}
            THEN SelectSeq(f1, LAMBDA r : r.store_location \in stores) ELSE f1
      f3 == IF channel # "All"
            THEN SelectSeq(f2, LAMBDA r : r.channel = channel) ELSE f2
      f4 == IF categories # {}
            THEN SelectSeq(f3, LAMBDA r : r.product_category \in categories) ELSE f3
      f5 == IF segments # {}
            THEN SelectSeq(f4, LAMBDA r : r.customer_segment \in segments) ELSE f4
      f6 == IF payment_methods # {}
            THEN SelectSeq(f5, LAMBDA r : r.payment_method \in payment_methods) ELSE f5
  IN  f6

\* apply_filters with the store filter applied even for an empty selection
apply_filters_EmptyStoresMatchNothing(t, date_segment, custom_start, custom_end, stores, channel, categories, segments, payment_methods) ==
  LET f1 == SelectSeq(t, LAMBDA r : r.date # NaT /\ r.date >= custom_start
                                    /\ r.date <= custom_end)
      f2 == SelectSeq(f1, LAMBDA r : r.store_location \in stores)
      f3 == IF channel # "All"
            THEN SelectSeq(f2, LAMBDA r : r.channel = channel) ELSE f2
      f4 == IF categories # {}
            THEN SelectSeq(f3, LAMBDA r : r.product_category \in categories) ELSE f3
      f5 == IF segments # {}
            THEN SelectSeq(f4, LAMBDA r : r.customer_segment \in segments) ELSE f4
      f6 == IF payment_methods # {}
            THEN SelectSeq(f5, LAMBDA r : r.payment_method \in payment_methods) ELSE f5
  IN  f6

\* apply_filters that hands back the newest row first
apply_filters_NewestFirst(t, date_segment, custom_start, custom_end, stores, channel, categories, segments, payment_methods) ==
  LET f1 == SelectSeq(t, LAMBDA r : r.date # NaT /\ r.date >= custom_start
                                    /\ r.date <= custom_end)
      f2 == IF stores # {}
            THEN SelectSeq(f1, LAMBDA r : r.store_location \in stores) ELSE f1
      f3 == IF channel # "All"
            THEN SelectSeq(f2, LAMBDA r : r.channel = channel) ELSE f2
      f4 == IF categories # {}
            THEN SelectSeq(f3, LAMBDA r : r.product_category \in categories) ELSE f3
      f5 == IF segments # {}
            THEN SelectSeq(f4, LAMBDA r : r.customer_segment \in segments) ELSE f4
      f6 == IF payment_methods # {}
            THEN SelectSeq(f5, LAMBDA r : r.payment_method \in payment_methods) ELSE f5
  IN  [i \in 1..Len(f6) |-> f6[Len(f6) + 1 - i]]

\* apply_filters of Mini_Project/app.py
apply_filters(t, date_segment, custom_start, custom_end, stores, channel, categories, segments, payment_methods) ==
  LET ranged == SelectSeq(t, LAMBDA r : InDateRange(r, custom_start, custom_end))
      f1 == CASE date_segment = "Daily" -> ranged
              [] date_segment = "Weekly" -> ranged
              [] date_segment = "Monthly" -> ranged
              [] date_segment = "Quarterly" -> ranged
              [] date_segment = "Yearly" -> ranged
              [] OTHER -> t
      f2 == IF stores # {}
            THEN SelectSeq(f1, LAMBDA r : IsIn(r.store_location, stores)) ELSE f1
      f3 == IF channel # "All"
            THEN SelectSeq(f2, LAMBDA r : r.channel = channel) ELSE f2
      f4 == IF categories # {}
            THEN SelectSeq(f3, LAMBDA r : IsIn(r.product_category, categories)) ELSE f3
      f5 == IF segments # {}
            THEN SelectSeq(f4, LAMBDA r : IsIn(r.customer_segment, segments)) ELSE f4
      f6 == IF payment_methods # {}
            THEN SelectSeq(f5, LAMBDA r : IsIn(r.payment_method, payment_methods)) ELSE f5
  IN  f6

\* filter_data of urbanmart_final_project/app.py (the same function is in
\* urbanmart_streamlit_project/app.py)
filter_data(t, start_date, end_date, selected_locations, selected_channel, selected_categories) ==
  LET f1 == SelectSeq(t, LAMBDA r : InDateRange(r, start_date, end_date))
      f2 == IF selected_locations # {}
            THEN SelectSeq(f1, LAMBDA r : IsIn(r.store_location, selected_locations))
            ELSE f1
      f3 == IF selected_channel # "All"
            THEN SelectSeq(f2, LAMBDA r : r.channel = selected_channel) ELSE f2
      f4 == IF selected_categories # {}
            THEN SelectSeq(f3, LAMBDA r : IsIn(r.product_category, selected_categories))
            ELSE f3
  IN  f4

\* filter_data of urbanmart_final_project/urbanmart_analysis.py; an argument
\* left at None is <<>>, an argument given is <<value>>
filter_data_analysis(t, start_date, end_date, store, channel) ==
  LET c == [i \in 1..Len(t) |-> [t[i] EXCEPT !.date = ToDatetime(t[i].date)]]
      f1 == IF start_date # <<>>
            THEN SelectSeq(c, LAMBDA r : r.date # NaT /\ r.date >= start_date[1])
            ELSE c
      f2 == IF end_date # <<>>
            THEN SelectSeq(f1, LAMBDA r : r.date # NaT /\ r.date <= end_date[1])
            ELSE f1
      f3 == IF store # <<>>
            THEN SelectSeq(f2, LAMBDA r : r.store_id = store[1]) ELSE f2
      f4 == IF channel # <<>>
            THEN SelectSeq(f3, LAMBDA r : r.channel = channel[1]) ELSE f3
  IN  f4

\* the criteria that restrict nothing over the dates of the model
NoCriteria ==
  [date_segment |-> "Daily", custom_start |-> 1, custom_end |-> MaxDate,
   stores |-> {}, channel |-> "All", categories |-> {}, segments |-> {},
   payment_methods |-> {}]

\* number of criteria fields that differ from NoCriteria
Restricted(c) ==
  (IF c.date_segment # "Daily" THEN 1 ELSE 0)
  + (IF c.custom_start # 1 \/ c.custom_end # MaxDate THEN 1 ELSE 0)
  + (IF c.stores # {} THEN 1 ELSE 0)
  + (IF c.channel # "All" THEN 1 ELSE 0)
  + (IF c.categories # {} THEN 1 ELSE 0)
  + (IF c.segments # {} THEN 1 ELSE 0)
  + (IF c.payment_methods # {} THEN 1 ELSE 0)

\* the criteria the sidebar widgets can hand to apply_filters
Criteria ==
  { c \in [date_segment : DateSegments, custom_start : Dates, custom_end : Dates,
           stores : SUBSET Stores, channel : Channels \cup {"All"},
           categories : SUBSET Categories, segments : SUBSET Segments,
           payment_methods : SUBSET PaymentMethods] :
      Restricted(c) <= MaxRestrict }

\* the criteria filter_data has parameters for
CriteriaFinal ==
  { c \in Criteria : c.date_segment = "Daily" /\ c.segments = {}
                     /\ c.payment_methods = {} }

\* ------------------------------------------------------------ aggregator
\* every label of the model in the order Python sorts strings
LabelOrder ==
  <<"Beverages", "Cash", "Cola 2L", "Downtown", "Friday", "Green Tea", "In-store",
    "Loyal", "Monday", "Online", "Potato Chips", "Regular", "S1", "S2", "Saturday",
    "Snacks", "Sunday", "Thursday", "Tuesday", "UPI", "Uptown", "Wednesday">>

\* a groupby that loses its last group
GroupKeys_DropLast(t, key) ==
  LET ks == SelectSeq(LabelOrder, LAMBDA k : k \in { t[i][key] : i \in 1..Len(t) })
  IN  SubSeq(ks, 1, Len(ks) - 1)

\* the group keys of df.groupby(key): the labels present, sorted
GroupKeys(t, key) == SelectSeq(LabelOrder, LAMBDA k : k \in Unique(t, key))

\* df.groupby(key)[col].sum(): one entry per group, in key order
GroupSum(t, key, col) ==
  LET ks == GroupKeys(t, key)
  IN  [i \in 1..Len(ks) |->
         [key |-> ks[i], value |-> SumCol(RowsWhere(t, key, ks[i]), col)]]

\* df.groupby(key).agg({...}).reset_index() over the derived columns of
\* Mini_Project/app.py: sums of the measures, distinct counts of the ids
GroupAgg(t, key) ==
  LET ks == GroupKeys(t, key)
  IN  [i \in 1..Len(ks) |->
         LET g == RowsWhere(t, key, ks[i])
         IN  [key |-> ks[i],
              line_revenue |-> SumCol(g, "line_revenue"),
              profit |-> SumCol(g, "profit"),
              cost |-> SumCol(g, "cost"),
              quantity |-> SumCol(g, "quantity"),
              total_discount |-> SumCol(g, "total_discount"),
              transaction_id |-> NUnique(g, "transaction_id"),
              customer_id |-> NUnique(g, "customer_id")]]

RECURSIVE InsertDesc(_, _, _)
\* x put into the descending sequence s behind the entries that are not smaller
InsertDesc(s, x, col) ==
  IF s = <<>> THEN <<x>>
  ELSE IF Head(s)[col] >= x[col] THEN <<Head(s)>> \o InsertDesc(Tail(s), x, col)
  ELSE <<x>> \o s

RECURSIVE SortDesc(_, _)
\* sort_values(col, ascending=False) as a sort that keeps equal entries in
\* their order gives it; the rollups of the pages are read by measure only
SortDesc(s, col) ==
  IF s = <<>> THEN <<>>
  ELSE InsertDesc(SortDesc(SubSeq(s, 1, Len(s) - 1), col), s[Len(s)], col)

\* DataFrame.head(n)
HeadN(s, n) == SubSeq(s, 1, IF Len(s) < n THEN Len(s) ELSE n)

\* the orders of 1..n
Perms(n) == { p \in [1..n -> 1..n] : \A i, j \in 1..n : i # j => p[i] # p[j] }

\* whether s is ordered by col, descending or ascending
IsSorted(s, col, ascending) ==
  \A i \in 1..(Len(s) - 1) :
     IF ascending THEN s[i][col] <= s[i + 1][col] ELSE s[i][col] >= s[i + 1][col]

\* a sort that may return the frame as it came
SortValues_Unsorted(s, col, ascending) == {s}

\* sort_values(col, ascending=...) with the default kind="quicksort", which
\* promises no order among equal entries: every ordering by col of the frame
SortValues(s, col, ascending) ==
  { t \in { [i \in 1..Len(s) |-> s[p[i]]] : p \in Perms(Len(s)) } :
      IsSorted(t, col, ascending) }

\* a margin column over the revenue before discounts
WithMargin_OverGross(frame) ==
  [i \in 1..Len(frame) |->
     WithCol(frame[i], "profit_margin_pct",
             PctDiv(frame[i].profit, frame[i].line_revenue + frame[i].total_discount))]

\* a grouped frame with its 'Profit Margin %' column
WithMargin(frame) ==
  [i \in 1..Len(frame) |->
     WithCol(frame[i], "profit_margin_pct",
             PctDiv(frame[i].profit, frame[i].line_revenue))]

\* a grouped frame with its 'Avg Transaction Value' column
WithAvgTxn(frame) ==
  [i \in 1..Len(frame) |->
     WithCol(frame[i], "avg_transaction_value",
             AmountDiv(frame[i].line_revenue, frame[i].transaction_id))]

\* the Executive Overview page of Mini_Project/app.py: KPIs, top categories,
\* store performance
executive_overview(t) ==
  LET total_revenue == SumCol(t, "line_revenue")
      total_profit == SumCol(t, "profit")
      total_transactions == NUnique(t, "transaction_id")
  IN  [page |-> "Executive Overview",
       total_revenue |-> total_revenue,
       total_profit |-> total_profit,
       total_transactions |-> total_transactions,
       unique_customers |-> NUnique(t, "customer_id"),
       avg_order_value |->
         IF total_transactions > 0
         THEN FloatDiv(total_revenue, 1000 * total_transactions) ELSE Num(0, 1),
       profit_margin |->
         IF total_revenue > 0
         THEN FloatDiv(total_profit * 100, total_revenue) ELSE Num(0, 1),
       category_performance |->
         SortDesc(GroupAgg(t, "product_category"), "line_revenue"),
       store_performance |->
         SortDesc(GroupAgg(t, "store_location"), "line_revenue")]

\* the Sales Metrics of the Sales Performance page
sales_performance(t) ==
  LET gross_revenue == SumCol(t, "gross_revenue")
      total_discounts == SumCol(t, "total_discount")
  IN  [page |-> "Sales Performance",
       gross_revenue |-> gross_revenue,
       total_discounts |-> total_discounts,
       net_revenue |-> SumCol(t, "line_revenue"),
       discount_rate |->
         IF gross_revenue > 0
         THEN FloatDiv(total_discounts * 100, gross_revenue) ELSE Num(0, 1)]

\* groupby('product_name').agg({line_revenue, quantity, profit}) of the
\* Sales Performance page
ProductAgg(t) ==
  LET g == GroupAgg(t, "product_name")
  IN  [i \in 1..Len(g) |->
         [key |-> g[i].key, line_revenue |-> g[i].line_revenue,
          quantity |-> g[i].quantity, profit |-> g[i].profit]]

\* top_products of the Sales Performance page: the frames it can be
top_products(t) ==
  { HeadN(s, 10) : s \in SortValues(ProductAgg(t), "line_revenue", FALSE) }

\* bottom_products of the Sales Performance page: the frames it can be
bottom_products(t) ==
  { HeadN(s, 10) : s \in SortValues(ProductAgg(t), "line_revenue", TRUE) }

\* groupby(cols).agg({'line_revenue': 'sum', 'cost': 'sum', 'profit': 'sum'})
\* .reset_index() for one or two numeric key columns: one row per key, the
\* keys in increasing order
GroupByCols(t, cols) ==
  LET KeyOf(r) == [k \in 1..Len(cols) |-> r[cols[k]]]
      Less(a, b) == a[1] < b[1] \/ (a[1] = b[1] /\ Len(cols) = 2 /\ a[2] < b[2])
      keys == { KeyOf(t[i]) : i \in 1..Len(t) }
      n == Cardinality(keys)
      order == CHOOSE s \in [1..n -> keys] : \A i \in 1..(n - 1) : Less(s[i], s[i + 1])
  IN  [i \in 1..n |->
         LET g == SelectSeq(t, LAMBDA r : KeyOf(r) = order[i])
         IN  [key |-> order[i],
              line_revenue |-> SumCol(g, "line_revenue"),
              cost |-> SumCol(g, "cost"),
              profit |-> SumCol(g, "profit")]]

\* trend_data of the Executive Overview page
trend_data(t, date_segment) ==
  CASE date_segment = "Daily" -> GroupByCols(t, <<"date">>)
    [] date_segment = "Weekly" -> GroupByCols(t, <<"year", "week">>)
    [] date_segment = "Monthly" -> GroupByCols(t, <<"year_month">>)
    [] date_segment = "Quarterly" -> GroupByCols(t, <<"year_quarter">>)
    [] OTHER -> GroupByCols(t, <<"year">>)

\* profit_trend of the Profitability Analysis page
profit_trend(t, date_segment) ==
  WithMargin(CASE date_segment = "Daily" -> GroupByCols(t, <<"date">>)
               [] date_segment = "Monthly" -> GroupByCols(t, <<"year_month">>)
               [] OTHER -> GroupByCols(t, <<"date">>))

\* a reindex that keeps the frame as it is
Reindex_KeepFrameOrder(frame, labels) ==
  [i \in 1..Len(frame) |->
     [Day |-> frame[i].key, Revenue |-> Num(frame[i].line_revenue, 1),
      Transactions |-> Num(frame[i].transaction_id, 1)]]

\* .reindex(labels).reset_index() of the day-of-week frame: one row per label
\* in the order of labels, NaN where the frame has no such group
Reindex(frame, labels) ==
  [i \in 1..Len(labels) |->
     IF \E j \in 1..Len(frame) : frame[j].key = labels[i]
     THEN LET j == CHOOSE j \in 1..Len(frame) : frame[j].key = labels[i]
          IN  [Day |-> labels[i], Revenue |-> Num(frame[j].line_revenue, 1),
               Transactions |-> Num(frame[j].transaction_id, 1)]
     ELSE [Day |-> labels[i], Revenue |-> NaN, Transactions |-> NaN]]

\* day_order of the Sales Performance page
day_order ==
  <<"Monday", "Tuesday", "Wednesday", "Thursday", "Friday", "Saturday", "Sunday">>

\* day_sales of the Sales Performance page
day_sales(t) == Reindex(GroupAgg(t, "day_of_week"), day_order)

\* a grouped frame with its 'Avg Items per Transaction' column
WithAvgItems(frame) ==
  [i \in 1..Len(frame) |->
     WithCol(frame[i], "avg_items_per_transaction",
             RoundSeries2(FloatDiv(frame[i].quantity, frame[i].transaction_id)))]

\* store_metrics of the Store Performance page
store_metrics(t) == WithAvgItems(WithAvgTxn(WithMargin(GroupAgg(t, "store_location"))))

RECURSIVE Ascending(_)
\* the numbers of S in increasing order, as groupby sorts numeric keys
Ascending(S) ==
  IF S = {} THEN <<>>
  ELSE LET m == CHOOSE x \in S : \A y \in S : x <= y
       IN  <<m>> \o Ascending(S \ {m})

RECURSIVE Concat(_)
\* the frames of a sequence of frames, one after the other
Concat(frames) ==
  IF frames = <<>> THEN <<>> ELSE Head(frames) \o Concat(Tail(frames))

\* Series.mean() of a column: NaN for no rows
MeanCol(t, col) == FloatDiv(SumCol(t, col), Len(t))

\* a basket frame with one entry per row of the view
basket_analysis_PerRow(t) ==
  [i \in 1..Len(t) |->
     [customer_segment |-> t[i].customer_segment, bill_id |-> t[i].bill_id,
      line_revenue |-> t[i].line_revenue]]

\* basket_analysis of the Customer Insights page:
\* groupby(['customer_segment', 'bill_id']).agg({'line_revenue': 'sum'})
basket_analysis(t) ==
  LET segs == GroupKeys(t, "customer_segment")
  IN  Concat([i \in 1..Len(segs) |->
                LET g == RowsWhere(t, "customer_segment", segs[i])
                    bills == Ascending(Unique(g, "bill_id"))
                IN  [j \in 1..Len(bills) |->
                       [customer_segment |-> segs[i], bill_id |-> bills[j],
                        line_revenue |->
                          SumCol(RowsWhere(g, "bill_id", bills[j]), "line_revenue")]]])

\* avg_basket: basket_analysis.groupby('customer_segment')['line_revenue'].mean()
avg_basket(t) ==
  LET b == basket_analysis(t)
      segs == GroupKeys(b, "customer_segment")
  IN  [i \in 1..Len(segs) |->
         [key |-> segs[i],
          value |-> MeanCol(RowsWhere(b, "customer_segment", segs[i]), "line_revenue")]]

\* products_per_transaction of the Customer Insights page:
\* groupby(['customer_segment', 'transaction_id']).size()
products_per_transaction(t) ==
  LET segs == GroupKeys(t, "customer_segment")
  IN  Concat([i \in 1..Len(segs) |->
                LET g == RowsWhere(t, "customer_segment", segs[i])
                    txns == Ascending(Unique(g, "transaction_id"))
                IN  [j \in 1..Len(txns) |->
                       [customer_segment |-> segs[i], transaction_id |-> txns[j],
                        products |-> Len(RowsWhere(g, "transaction_id", txns[j]))]]])

\* avg_products: products_per_transaction.groupby('customer_segment')['products'].mean()
avg_products(t) ==
  LET b == products_per_transaction(t)
      segs == GroupKeys(b, "customer_segment")
  IN  [i \in 1..Len(segs) |->
         [key |-> segs[i],
          value |-> MeanCol(RowsWhere(b, "customer_segment", segs[i]), "products")]]

\* avg_units_per_transaction of the Product Analytics page:
\* groupby('transaction_id')['quantity'].sum().mean()
avg_units_per_transaction(t) ==
  LET txns == Ascending(Unique(t, "transaction_id"))
  IN  MeanCol([j \in 1..Len(txns) |->
                 [transaction_id |-> txns[j],
                  quantity |-> SumCol(RowsWhere(t, "transaction_id", txns[j]),
                                      "quantity")]], "quantity")

\* the Product Metrics and the Category Performance Matrix of the Product
\* Analytics page
product_analytics(t) ==
  [page |-> "Product Analytics",
   avg_units_per_transaction |-> avg_units_per_transaction(t),
   category_matrix |-> WithAvgTxn(WithMargin(GroupAgg(t, "product_category")))]

\* the Profitability Analysis page: overview, margins by category and by
\* store, and the discount check of the recommendations
profitability(t) ==
  LET total_revenue == SumCol(t, "line_revenue")
      total_profit == SumCol(t, "profit")
      total_discounts == SumCol(t, "total_discount")
  IN  [page |-> "Profitability Analysis",
       total_revenue |-> total_revenue,
       total_cost |-> SumCol(t, "cost"),
       total_profit |-> total_profit,
       overall_margin |->
         IF total_revenue > 0
         THEN FloatDiv(total_profit * 100, total_revenue) ELSE Num(0, 1),
       total_discounts |-> total_discounts,
       category_profit |->
         SortDesc(WithMargin(GroupAgg(t, "product_category")), "profit"),
       store_profit |-> WithMargin(GroupAgg(t, "store_location")),
       discounts_over_revenue |-> FloatDiv(total_discounts, total_revenue)]

\* ------------------------------------------------------------ CLI KPIs
\* what main() of urbanmart_final_project/app.py (show_sales_dashboard of
\* urbanmart_streamlit_project/app.py) computes from the filtered view: the key
\* metrics, revenue by category and by store, the top 5 products
sales_dashboard(t) ==
  LET total_revenue == SumCol(t, "line_revenue")
      total_transactions == Len(t)
  IN  [page |-> "Sales Dashboard",
       total_revenue |-> total_revenue,
       total_transactions |-> total_transactions,
       avg_revenue_per_txn |->
         IF total_transactions > 0
         THEN FloatDiv(total_revenue, 1000 * total_transactions) ELSE Num(0, 1),
       unique_customers |-> NUnique(t, "customer_id"),
       rev_by_cat |->
         SortDesc(GroupSum(t, "product_category", "line_revenue"), "value"),
       rev_by_store |->
         SortDesc(GroupSum(t, "store_location", "line_revenue"), "value"),
       top_products |->
         HeadN(SortDesc(GroupSum(t, "product_name", "line_revenue"), "value"), 5)]

\* an assignment that takes the discount off the line_revenue already there
AssignLineRevenue_FromLast(t) ==
  [i \in 1..Len(t) |->
     WithCol(t[i], "line_revenue",
             (IF "line_revenue" \in DOMAIN t[i] THEN t[i].line_revenue
              ELSE t[i].quantity * t[i].unit_price) - t[i].discount_applied)]

\* df['line_revenue'] = (df['quantity'] * df['unit_price']) - df['discount_applied']
\* as the KPI functions of Mini_Project/urbanmart_analysis.py run it on the
\* table they are given
AssignLineRevenue(t) ==
  [i \in 1..Len(t) |->
     WithCol(t[i], "line_revenue",
             t[i].quantity * t[i].unit_price - t[i].discount_applied)]

\* compute_total_revenue of Mini_Project/urbanmart_analysis.py: the table it
\* leaves behind and the value it returns
compute_total_revenue_mini(t) ==
  LET d == AssignLineRevenue(t)
  IN  [df |-> d, value |-> Round2(SumCol(d, "line_revenue"))]

\* compute_revenue_by_store of Mini_Project/urbanmart_analysis.py
compute_revenue_by_store_mini(t) ==
  LET d == AssignLineRevenue(t)
      g == GroupSum(d, "store_location", "line_revenue")
  IN  [df |-> d,
       value |-> [i \in 1..Len(g) |-> [key |-> g[i].key, value |-> Round2(g[i].value)]]]

\* compute_top_n_products of Mini_Project/urbanmart_analysis.py: the table it
\* leaves behind and the dictionaries it can return
compute_top_n_products_mini(t, n) ==
  LET d == AssignLineRevenue(t)
  IN  [df |-> d,
       values |-> { HeadN(s, n) :
                    s \in SortValues(GroupSum(d, "product_name", "line_revenue"),
                                     "value", FALSE) }]

\* a line_revenue that forgets the discount
add_line_revenue_column_NoDiscount(t) ==
  [i \in 1..Len(t) |-> WithCol(t[i], "line_revenue", t[i].quantity * t[i].unit_price)]

\* add_line_revenue_column of urbanmart_final_project/urbanmart_analysis.py:
\* a copy of the table with the column
add_line_revenue_column(t) ==
  [i \in 1..Len(t) |->
     WithCol(t[i], "line_revenue",
             t[i].quantity * t[i].unit_price - t[i].discount_applied)]

\* the table the KPI functions of urbanmart_final_project work on: the one
\* given when it has a line_revenue column, else a copy with the column
WithLineRevenue(t) ==
  IF "line_revenue" \notin ColumnsOf(t) THEN add_line_revenue_column(t) ELSE t

\* compute_total_revenue of urbanmart_final_project/urbanmart_analysis.py
compute_total_revenue_final(t) == SumCol(WithLineRevenue(t), "line_revenue")

\* compute_revenue_by_store of urbanmart_final_project/urbanmart_analysis.py
compute_revenue_by_store_final(t) ==
  GroupSum(WithLineRevenue(t), "store_id", "line_revenue")

\* compute_top_n_products of urbanmart_final_project/urbanmart_analysis.py:
\* the frames it can return
compute_top_n_products_final(t, n) ==
  { HeadN(s, n) :
    s \in SortValues(GroupSum(WithLineRevenue(t), "product_name", "line_revenue"),
                     "value", FALSE) }

\* run_basic_sanity_checks of urbanmart_final_project/urbanmart_analysis.py:
\* the table it leaves behind, its date column converted in place
run_basic_sanity_checks(t) ==
  [i \in 1..Len(t) |-> [t[i] EXCEPT !.date = ToDatetime(t[i].date)]]

\* prepare_dashboard_data of urbanmart_final_project/urbanmart_analysis.py:
\* the prepared copy and the summary tables
prepare_dashboard_data(t) ==
  LET c == add_line_revenue_column(t)
      d == [i \in 1..Len(c) |->
              WithCol([c[i] EXCEPT !.date = ToDatetime(c[i].date)],
                      "day_of_week", DayName(ToDatetime(c[i].date)))]
  IN  [df |-> d,
       revenue_by_category |->
         SortDesc(GroupSum(d, "product_category", "line_revenue"), "value"),
       revenue_by_store |->
         SortDesc(GroupSum(d, "store_location", "line_revenue"), "value"),
       revenue_by_channel |->
         SortDesc(GroupSum(d, "channel", "line_revenue"), "value")]

\* ---------------------------------------------------------------- cache
\* the files load_data can be asked for
DATA_FILE == "urbanmart_sales.csv"
Paths == {DATA_FILE, "other_sales.csv"}

\* what a source file can hold
SourceContents ==
  {<<>>} \cup { <<[BaseRow EXCEPT !.quantity = q]>> : q \in Quantities }

\* no entry under a cache key
NoEntry == [has |-> FALSE, table |-> <<>>]

\* the key st.cache_data files a call under: the call's arguments, which for
\* load_data() of Mini_Project/app.py are none
CacheKey(program, filepath) == IF program = "mini_app" THEN "()" ELSE filepath

CacheKeys == Paths \cup {"()"}

\* load_data without its cache: every call is a miss
CacheHit_Never(c, key) == FALSE

\* st.cache_data has a value for the key
CacheHit(c, key) == c[key].has

\* the file a call reads on a miss
FileRead(program, filepath) == IF program = "mini_app" THEN DATA_FILE ELSE filepath

\* the body of load_data for the program
LoadBody(program, content) ==
  IF program = "mini_app" THEN load_data_mini(content) ELSE load_data_final(content)

\* ---------------------------------------------------------------- state
VARIABLES
  prog,         \* the program that runs
  pc,           \* where the program is
  csv,          \* the rows of urbanmart_sales.csv
  df,           \* the table the program holds
  criteria,     \* the criteria of the last filter call
  df_filtered,  \* the result of the last filter call
  df_prepared,  \* prepared["df"] of the urbanmart_final_project CLI
  out,          \* what the last operation returned or rendered
  files,        \* the content of each source file
  cache,        \* the st.cache_data store of load_data: key -> entry
  loads,        \* how often the body of load_data ran to the end, per key
  ret           \* the last return of load_data

vars == <<prog, pc, csv, df, criteria, df_filtered, df_prepared, out,
          files, cache, loads, ret>>

cacheVars == <<files, cache, loads, ret>>

NoRet == [key |-> "()", path |-> DATA_FILE, hit |-> FALSE, table |-> <<>>,
          content |-> <<>>]

\* the state every program starts from, but for the program and its file
InitCommon ==
  /\ pc = "start"
  /\ df = <<>>
  /\ criteria = NoCriteria
  /\ df_filtered = <<>>
  /\ df_prepared = <<>>
  /\ out = [op |-> "none"]
  /\ files = [p \in Paths |-> <<>>]
  /\ cache = [k \in CacheKeys |-> NoEntry]
  /\ loads = [k \in CacheKeys |-> 0]
  /\ ret = NoRet

\* ------------------------------------------------- dashboard: load, filter
\* df = load_data() at the top of Mini_Project/app.py: any exception while
\* loading is reported and the script stops
LoadMini ==
  /\ prog = "mini_app" /\ pc = "start"
  /\ IF ToDatetimeRaises(csv)
     THEN pc' = "stopped" /\ df' = df /\ out' = [op |-> "st.error"]
     ELSE pc' = "loaded" /\ df' = load_data_mini(csv) /\ out' = [op |-> "load_data"]
  /\ UNCHANGED <<prog, csv, criteria, df_filtered, df_prepared, cacheVars>>

\* df = load_data(DATA_FILE) in main() of urbanmart_final_project/app.py
LoadFinal ==
  /\ prog = "final_app" /\ pc = "start"
  /\ pc' = "loaded" /\ df' = load_data_final(csv) /\ out' = [op |-> "load_data"]
  /\ UNCHANGED <<prog, csv, criteria, df_filtered, df_prepared, cacheVars>>

\* df_filtered = apply_filters(df, ...) of Mini_Project/app.py
ApplyFilters ==
  /\ prog = "mini_app" /\ pc = "loaded"
  /\ \E c \in Criteria :
       /\ criteria' = c
       /\ df_filtered' = apply_filters(df, c.date_segment, c.custom_start,
                                       c.custom_end, c.stores, c.channel,
                                       c.categories, c.segments, c.payment_methods)
  /\ pc' = "filtered"
  /\ out' = [op |-> "apply_filters"]
  /\ UNCHANGED <<prog, csv, df, df_prepared, cacheVars>>

\* the sidebar with only the store multiselect changed
StoreCriteria == { [NoCriteria EXCEPT !.stores = s] : s \in SUBSET Stores }

\* df_filtered = apply_filters(df, ...) with the criteria of StoreCriteria
ApplyFiltersByStore ==
  /\ prog = "mini_app" /\ pc = "loaded"
  /\ \E c \in StoreCriteria :
       /\ criteria' = c
       /\ df_filtered' = apply_filters(df, c.date_segment, c.custom_start,
                                       c.custom_end, c.stores, c.channel,
                                       c.categories, c.segments, c.payment_methods)
  /\ pc' = "filtered"
  /\ out' = [op |-> "apply_filters"]
  /\ UNCHANGED <<prog, csv, df, df_prepared, cacheVars>>

\* df_filtered = filter_data(df, ...) in main() of urbanmart_final_project/app.py
FilterData ==
  /\ prog = "final_app" /\ pc = "loaded"
  /\ \E c \in CriteriaFinal :
       /\ criteria' = c
       /\ df_filtered' = filter_data(df, c.custom_start, c.custom_end, c.stores,
                                     c.channel, c.categories)
  /\ pc' = "filtered"
  /\ out' = [op |-> "filter_data"]
  /\ UNCHANGED <<prog, csv, df, df_prepared, cacheVars>>

InitFilter ==
  /\ prog \in {"mini_app", "final_app"}
  /\ csv \in TablesOf(DimRows)
  /\ InitCommon

NextFilter == LoadMini \/ LoadFinal \/ ApplyFilters \/ FilterData

SpecFilter == InitFilter /\ [][NextFilter]_vars

\* ------------------------------------------------------ dashboard: pages
\* an empty check that lets every result through
HasRows_Always(t) == TRUE

\* the negation of the check len(df_filtered) == 0
HasRows(t) == Len(t) # 0

\* "No data available for selected filters": the script stops
NoDataWarning ==
  /\ prog = "mini_app" /\ pc = "filtered" /\ ~HasRows(df_filtered)
  /\ pc' = "stopped" /\ out' = [op |-> "st.warning"]
  /\ UNCHANGED <<prog, csv, df, criteria, df_filtered, df_prepared, cacheVars>>

\* the script renders the page the sidebar radio selects
ExecutiveOverview ==
  /\ prog = "mini_app" /\ pc = "filtered" /\ HasRows(df_filtered)
  /\ pc' = "rendered" /\ out' = WithCol(executive_overview(df_filtered), "op", "page")
  /\ UNCHANGED <<prog, csv, df, criteria, df_filtered, df_prepared, cacheVars>>

SalesPerformance ==
  /\ prog = "mini_app" /\ pc = "filtered" /\ HasRows(df_filtered)
  /\ pc' = "rendered" /\ out' = WithCol(sales_performance(df_filtered), "op", "page")
  /\ UNCHANGED <<prog, csv, df, criteria, df_filtered, df_prepared, cacheVars>>

ProductAnalytics ==
  /\ prog = "mini_app" /\ pc = "filtered" /\ HasRows(df_filtered)
  /\ pc' = "rendered" /\ out' = WithCol(product_analytics(df_filtered), "op", "page")
  /\ UNCHANGED <<prog, csv, df, criteria, df_filtered, df_prepared, cacheVars>>

Profitability ==
  /\ prog = "mini_app" /\ pc = "filtered" /\ HasRows(df_filtered)
  /\ pc' = "rendered" /\ out' = WithCol(profitability(df_filtered), "op", "page")
  /\ UNCHANGED <<prog, csv, df, criteria, df_filtered, df_prepared, cacheVars>>

\* ------------------------------------------------ CLI of Mini_Project
\* main() of Mini_Project/urbanmart_analysis.py up to the menu
MainMini ==
  /\ prog = "mini_cli" /\ pc = "start" /\ DATA_FILE \in DOMAIN files
  /\ df' = csv /\ pc' = "menu" /\ out' = [op |-> "load_data_with_pandas"]
  /\ UNCHANGED <<prog, csv, criteria, df_filtered, df_prepared, cacheVars>>

\* menu choice 1
Choice1Mini ==
  /\ prog = "mini_cli" /\ pc = "menu"
  /\ LET r == compute_total_revenue_mini(df)
     IN  df' = r.df /\ out' = [op |-> "compute_total_revenue", value |-> r.value]
  /\ UNCHANGED <<prog, pc, csv, criteria, df_filtered, df_prepared, cacheVars>>

\* menu choice 2
Choice2Mini ==
  /\ prog = "mini_cli" /\ pc = "menu"
  /\ LET r == compute_revenue_by_store_mini(df)
     IN  df' = r.df /\ out' = [op |-> "compute_revenue_by_store", value |-> r.value]
  /\ UNCHANGED <<prog, pc, csv, criteria, df_filtered, df_prepared, cacheVars>>

\* menu choice 3
Choice3Mini ==
  /\ prog = "mini_cli" /\ pc = "menu"
  /\ LET r == compute_top_n_products_mini(df, 5)
     IN  /\ df' = r.df
         /\ \E v \in r.values :
              out' = [op |-> "compute_top_n_products", n |-> 5, value |-> v]
  /\ UNCHANGED <<prog, pc, csv, criteria, df_filtered, df_prepared, cacheVars>>

\* menu choice 4
Choice4Mini ==
  /\ prog = "mini_cli" /\ pc = "menu"
  /\ pc' = "exit" /\ out' = [op |-> "exit"]
  /\ UNCHANGED <<prog, csv, df, criteria, df_filtered, df_prepared, cacheVars>>

\* ---------------------------------------- CLI of urbanmart_final_project
\* main(): df = load_data_with_pandas(DATA_FILE)
MainFinalLoad ==
  /\ prog = "final_cli" /\ pc = "start" /\ DATA_FILE \in DOMAIN files
  /\ df' = csv /\ pc' = "loaded" /\ out' = [op |-> "load_data_with_pandas"]
  /\ UNCHANGED <<prog, csv, criteria, df_filtered, df_prepared, cacheVars>>

\* main(): run_basic_sanity_checks(df)
MainFinalChecks ==
  /\ prog = "final_cli" /\ pc = "loaded"
  /\ df' = run_basic_sanity_checks(df) /\ pc' = "checked"
  /\ out' = [op |-> "run_basic_sanity_checks"]
  /\ UNCHANGED <<prog, csv, criteria, df_filtered, df_prepared, cacheVars>>

\* main(): prepared = prepare_dashboard_data(df); df_prepared = prepared["df"]
MainFinalPrepare ==
  /\ prog = "final_cli" /\ pc = "checked"
  /\ LET r == prepare_dashboard_data(df)
     IN  /\ df_prepared' = r.df
         /\ out' = [op |-> "prepare_dashboard_data",
                    revenue_by_category |-> r.revenue_by_category,
                    revenue_by_store |-> r.revenue_by_store,
                    revenue_by_channel |-> r.revenue_by_channel]
  /\ pc' = "menu"
  /\ UNCHANGED <<prog, csv, df, criteria, df_filtered, cacheVars>>

\* cli_menu choice 1
Choice1Final ==
  /\ prog = "final_cli" /\ pc = "menu"
  /\ out' = [op |-> "compute_total_revenue",
             value |-> compute_total_revenue_final(df_prepared)]
  /\ UNCHANGED <<prog, pc, csv, df, criteria, df_filtered, df_prepared, cacheVars>>

\* cli_menu choice 2
Choice2Final ==
  /\ prog = "final_cli" /\ pc = "menu"
  /\ out' = [op |-> "compute_revenue_by_store",
             value |-> compute_revenue_by_store_final(df_prepared)]
  /\ UNCHANGED <<prog, pc, csv, df, criteria, df_filtered, df_prepared, cacheVars>>

\* cli_menu choice 3
Choice3Final ==
  /\ prog = "final_cli" /\ pc = "menu"
  /\ \E v \in compute_top_n_products_final(df_prepared, 5) :
       out' = [op |-> "compute_top_n_products", n |-> 5, value |-> v]
  /\ UNCHANGED <<prog, pc, csv, df, criteria, df_filtered, df_prepared, cacheVars>>

\* cli_menu choice 4
Choice4Final ==
  /\ prog = "final_cli" /\ pc = "menu"
  /\ pc' = "exit" /\ out' = [op |-> "exit"]
  /\ UNCHANGED <<prog, csv, df, criteria, df_filtered, df_prepared, cacheVars>>

Init ==
  /\ prog \in {"mini_app", "mini_cli", "final_cli"}
  /\ csv \in TablesOf(MeasureRows)
  /\ InitCommon

Next ==
  \/ LoadMini \/ ApplyFiltersByStore \/ NoDataWarning
  \/ ExecutiveOverview \/ SalesPerformance \/ ProductAnalytics \/ Profitability
  \/ MainMini \/ Choice1Mini \/ Choice2Mini \/ Choice3Mini \/ Choice4Mini
  \/ MainFinalLoad \/ MainFinalChecks \/ MainFinalPrepare
  \/ Choice1Final \/ Choice2Final \/ Choice3Final \/ Choice4Final

Spec == Init /\ [][Next]_vars

\* ------------------------------------------------- the cache of load_data
\* the source file is written anew (the generator runs again, a new file is
\* put in its place)
WriteFile ==
  /\ \E p \in Paths, content \in SourceContents :
       /\ content # files[p]
       /\ files' = [files EXCEPT ![p] = content]
  /\ UNCHANGED <<prog, pc, csv, df, criteria, df_filtered, df_prepared, out,
                 cache, loads, ret>>

\* one call of the cached load_data: st.cache_data returns the stored value
\* of the key, or runs the body and stores what it returns
CallLoadData ==
  /\ \E filepath \in Paths :
       LET key == CacheKey(prog, filepath)
           path == FileRead(prog, filepath)
       IN  /\ (prog = "mini_app" => filepath = DATA_FILE)
           /\ IF CacheHit(cache, key)
              THEN /\ ret' = [key |-> key, path |-> path, hit |-> TRUE,
                              table |-> cache[key].table, content |-> files[path]]
                   /\ UNCHANGED <<cache, loads>>
              ELSE /\ loads[key] < MaxLoads
                   /\ LET table == LoadBody(prog, files[path])
                      IN  /\ cache' = [cache EXCEPT
                                         ![key] = [has |-> TRUE, table |-> table]]
                          /\ ret' = [key |-> key, path |-> path, hit |-> FALSE,
                                     table |-> table, content |-> files[path]]
                   /\ loads' = [loads EXCEPT ![key] = @ + 1]
  /\ UNCHANGED <<prog, pc, csv, df, criteria, df_filtered, df_prepared, out, files>>

InitCache ==
  /\ prog \in {"mini_app", "final_app"}
  /\ csv = <<>>
  /\ pc = "start"
  /\ df = <<>>
  /\ criteria = NoCriteria
  /\ df_filtered = <<>>
  /\ df_prepared = <<>>
  /\ out = [op |-> "none"]
  /\ files \in [Paths -> SourceContents]
  /\ cache = [k \in CacheKeys |-> NoEntry]
  /\ loads = [k \in CacheKeys |-> 0]
  /\ ret = NoRet

NextCache == WriteFile \/ CallLoadData

SpecCache == InitCache /\ [][NextCache]_vars

\* ------------------------------------------- one query of a dashboard
\* df_filtered = filter_data(...) with only the store multiselect changed
FilterDataByStore ==
  /\ prog = "final_app" /\ pc = "loaded"
  /\ \E c \in StoreCriteria :
       /\ criteria' = c
       /\ df_filtered' = filter_data(df, c.custom_start, c.custom_end, c.stores,
                                     c.channel, c.categories)
  /\ pc' = "filtered"
  /\ out' = [op |-> "filter_data"]
  /\ UNCHANGED <<prog, csv, df, df_prepared, cacheVars>>

\* main(): st.warning("No data available for the selected filters."); return
NoDataWarningFinal ==
  /\ prog = "final_app" /\ pc = "filtered" /\ ~HasRows(df_filtered)
  /\ pc' = "stopped" /\ out' = [op |-> "st.warning"]
  /\ UNCHANGED <<prog, csv, df, criteria, df_filtered, df_prepared, cacheVars>>

\* main(): the key metrics, charts and top-5 tables of the filtered view
SalesDashboard ==
  /\ prog = "final_app" /\ pc = "filtered" /\ HasRows(df_filtered)
  /\ pc' = "rendered" /\ out' = WithCol(sales_dashboard(df_filtered), "op", "page")
  /\ UNCHANGED <<prog, csv, df, criteria, df_filtered, df_prepared, cacheVars>>

InitQuery ==
  /\ prog \in {"mini_app", "final_app"}
  /\ csv \in TablesOf({BaseRow, [BaseRow EXCEPT !.store_id = "S2",
                                                 !.store_location = "Uptown"]})
  /\ InitCommon

NextQuery ==
  \/ LoadMini \/ ApplyFiltersByStore \/ NoDataWarning
  \/ ExecutiveOverview \/ SalesPerformance \/ ProductAnalytics \/ Profitability
  \/ LoadFinal \/ FilterDataByStore \/ NoDataWarningFinal \/ SalesDashboard

SpecQuery == InitQuery /\ [][NextQuery]_vars

\* ------------------------------------------------------- top-N products
\* products of generate_sample_data.py and their categories
Products == {"Cola 2L", "Green Tea", "Potato Chips"}
CategoryOf(p) == IF p = "Potato Chips" THEN "Snacks" ELSE "Beverages"

\* rows that differ in the product sold and in the quantity
ProductRows ==
  { [BaseRow EXCEPT !.product_name = p, !.product_category = CategoryOf(p),
                    !.quantity = q] : p \in Products, q \in Quantities }

\* the n a caller can ask for
TopNs == 0..MaxRows

\* compute_top_n_products(df, n) of Mini_Project/urbanmart_analysis.py
TopNMini ==
  /\ prog = "mini_cli" /\ pc = "menu"
  /\ \E n \in TopNs :
       LET r == compute_top_n_products_mini(df, n)
       IN  /\ df' = r.df
           /\ \E v \in r.values :
                out' = [op |-> "compute_top_n_products", n |-> n, value |-> v]
  /\ pc' = "done"
  /\ UNCHANGED <<prog, csv, criteria, df_filtered, df_prepared, cacheVars>>

\* compute_top_n_products(df_prepared, n) of urbanmart_final_project
TopNFinal ==
  /\ prog = "final_cli" /\ pc = "menu"
  /\ \E n \in TopNs :
       \E v \in compute_top_n_products_final(df_prepared, n) :
          out' = [op |-> "compute_top_n_products", n |-> n, value |-> v]
  /\ pc' = "done"
  /\ UNCHANGED <<prog, csv, df, criteria, df_filtered, df_prepared, cacheVars>>

\* the top 10 and bottom 10 products of the Sales Performance page
TopBottomProducts ==
  /\ prog = "mini_app" /\ pc = "filtered" /\ HasRows(df_filtered)
  /\ \E top \in top_products(df_filtered), bottom \in bottom_products(df_filtered) :
       out' = [op |-> "top_products", n |-> 10, top_products |-> top,
               bottom_products |-> bottom]
  /\ pc' = "rendered"
  /\ UNCHANGED <<prog, csv, df, criteria, df_filtered, df_prepared, cacheVars>>

InitTopN ==
  /\ prog \in {"mini_app", "mini_cli", "final_cli"}
  /\ csv \in TablesOf(ProductRows)
  /\ InitCommon

NextTopN ==
  \/ MainMini \/ TopNMini
  \/ MainFinalLoad \/ MainFinalChecks \/ MainFinalPrepare \/ TopNFinal
  \/ LoadMini \/ ApplyFiltersByStore \/ TopBottomProducts

SpecTopN == InitTopN /\ [][NextTopN]_vars

\* --------------------------------------------- rollups of the dashboard
TransactionIds == {1, 2}
BillIds == {1, 2}

\* rows that differ in the day; in store, quantity and discount; in
\* segment, bill and transaction; or in store, transaction and customer
RollupRows ==
  { [BaseRow EXCEPT !.date = DateText(d), !.quantity = q] :
      d \in Dates, q \in Quantities }
  \cup { [BaseRow EXCEPT !.store_location = loc, !.store_id = StoreIdOf(loc),
                         !.quantity = q, !.discount_applied = dis] :
           loc \in Stores, q \in Quantities, dis \in Discounts }
  \cup { [BaseRow EXCEPT !.customer_segment = sg, !.bill_id = b,
                         !.transaction_id = tx] :
           sg \in Segments, b \in BillIds, tx \in TransactionIds }
  \cup { [BaseRow EXCEPT !.store_location = "Uptown", !.store_id = "S2",
                         !.transaction_id = tx, !.customer_id = tx] :
           tx \in TransactionIds }

\* Sales by Day of Week of the Sales Performance page
SalesByDay ==
  /\ prog = "mini_app" /\ pc = "filtered" /\ HasRows(df_filtered)
  /\ pc' = "rendered"
  /\ out' = [op |-> "day_sales", day_sales |-> day_sales(df_filtered)]
  /\ UNCHANGED <<prog, csv, df, criteria, df_filtered, df_prepared, cacheVars>>

\* Store Comparison of the Store Performance page
StoreComparison ==
  /\ prog = "mini_app" /\ pc = "filtered" /\ HasRows(df_filtered)
  /\ pc' = "rendered"
  /\ out' = [op |-> "store_metrics", store_metrics |-> store_metrics(df_filtered)]
  /\ UNCHANGED <<prog, csv, df, criteria, df_filtered, df_prepared, cacheVars>>

\* Purchase Patterns of the Customer Insights page
PurchasePatterns ==
  /\ prog = "mini_app" /\ pc = "filtered" /\ HasRows(df_filtered)
  /\ pc' = "rendered"
  /\ out' = [op |-> "purchase_patterns", avg_basket |-> avg_basket(df_filtered),
             avg_products |-> avg_products(df_filtered)]
  /\ UNCHANGED <<prog, csv, df, criteria, df_filtered, df_prepared, cacheVars>>

InitRollup ==
  /\ prog = "mini_app"
  /\ csv \in TablesOf(RollupRows)
  /\ InitCommon

NextRollup ==
  \/ LoadMini \/ ApplyFiltersByStore \/ NoDataWarning
  \/ ExecutiveOverview \/ ProductAnalytics
  \/ SalesByDay \/ StoreComparison \/ PurchasePatterns

SpecRollup == InitRollup /\ [][NextRollup]_vars

\* ------------------------------------------------ one run of a CLI
\* what the menu loops do with an input that is no choice 1-4, with the end of
\* input (EOFError) and with Ctrl-C (KeyboardInterrupt), all three alike
MenuOutcome_EofLeaves(program, event) ==
  IF event = "invalid" THEN "menu"
  ELSE IF program = "mini_cli" THEN "exit" ELSE "raised"

\* where an input that is no choice 1-4, the end of input (EOFError) and
\* Ctrl-C (KeyboardInterrupt) take the menu loop: run_cli_menu reads inside
\* its try, catches KeyboardInterrupt with break and every Exception with a
\* message; cli_menu reads outside its try, so both exceptions leave it
MenuOutcome(program, event) ==
  IF event = "invalid" THEN "menu"
  ELSE IF program = "mini_cli"
       THEN IF event = "KeyboardInterrupt" THEN "exit" ELSE "menu"
       ELSE "raised"

\* main() of Mini_Project/urbanmart_analysis.py when the file is missing:
\* load_data_with_pandas prints and returns None, main prints and returns
MainMiniNoFile ==
  /\ prog = "mini_cli" /\ pc = "start" /\ DATA_FILE \notin DOMAIN files
  /\ pc' = "exit" /\ out' = [op |-> "Cannot proceed without data"]
  /\ UNCHANGED <<prog, csv, df, criteria, df_filtered, df_prepared, cacheVars>>

\* main() of urbanmart_final_project/urbanmart_analysis.py when the file is
\* missing: it prints and returns
MainFinalNoFile ==
  /\ prog = "final_cli" /\ pc = "start" /\ DATA_FILE \notin DOMAIN files
  /\ pc' = "exit" /\ out' = [op |-> "does not exist"]
  /\ UNCHANGED <<prog, csv, df, criteria, df_filtered, df_prepared, cacheVars>>

\* run_cli_menu reads something other than a choice 1-4
MenuEventMini ==
  /\ prog = "mini_cli" /\ pc = "menu"
  /\ \E event \in {"invalid", "EOFError", "KeyboardInterrupt"} :
       /\ pc' = MenuOutcome(prog, event)
       /\ out' = [op |-> "input", event |-> event]
  /\ UNCHANGED <<prog, csv, df, criteria, df_filtered, df_prepared, cacheVars>>

\* cli_menu reads something other than a choice 1-4
MenuEventFinal ==
  /\ prog = "final_cli" /\ pc = "menu"
  /\ \E event \in {"invalid", "EOFError", "KeyboardInterrupt"} :
       /\ pc' = MenuOutcome(prog, event)
       /\ out' = [op |-> "input", event |-> event]
  /\ UNCHANGED <<prog, csv, df, criteria, df_filtered, df_prepared, cacheVars>>

\* the interpreter ends: status 0 when main() returned, 1 when an exception
\* left it
ProcessExit ==
  /\ prog \in {"mini_cli", "final_cli"} /\ pc \in {"exit", "raised"}
  /\ pc' = "ended"
  /\ out' = [op |-> "sys.exit", code |-> IF pc = "exit" THEN 0 ELSE 1,
             after |-> out]
  /\ UNCHANGED <<prog, csv, df, criteria, df_filtered, df_prepared, cacheVars>>

InitCli ==
  /\ prog \in {"mini_cli", "final_cli"}
  /\ csv \in TablesOf({ [BaseRow EXCEPT !.quantity = q] : q \in Quantities })
  /\ pc = "start"
  /\ df = <<>>
  /\ criteria = NoCriteria
  /\ df_filtered = <<>>
  /\ df_prepared = <<>>
  /\ out = [op |-> "none"]
  /\ files \in {<<>>, [p \in {DATA_FILE} |-> csv]}
  /\ cache = [k \in CacheKeys |-> NoEntry]
  /\ loads = [k \in CacheKeys |-> 0]
  /\ ret = NoRet

NextCli ==
  \/ MainMini \/ MainMiniNoFile
  \/ Choice1Mini \/ Choice2Mini \/ Choice3Mini \/ Choice4Mini \/ MenuEventMini
  \/ MainFinalLoad \/ MainFinalNoFile \/ MainFinalChecks \/ MainFinalPrepare
  \/ Choice1Final \/ Choice2Final \/ Choice3Final \/ Choice4Final
  \/ MenuEventFinal \/ ProcessExit

SpecCli == InitCli /\ [][NextCli]_vars

\* ---------------------------------------------- trends of the dashboard
\* rows that differ in the day
TrendRows == { [BaseRow EXCEPT !.date = DateText(d)] : d \in TrendDays }

\* df_filtered = apply_filters(df, ...) with the granularity selected and the
\* two date inputs left at the first and the last date of the data
ApplyFiltersBySegment ==
  /\ prog = "mini_app" /\ pc = "loaded"
  /\ \E seg \in DateSegments :
       LET min_date == CHOOSE d \in Unique(df, "date") : \A e \in Unique(df, "date") : d <= e
           max_date == CHOOSE d \in Unique(df, "date") : \A e \in Unique(df, "date") : d >= e
           c == [NoCriteria EXCEPT !.date_segment = seg, !.custom_start = min_date,
                                   !.custom_end = max_date]
       IN  /\ criteria' = c
           /\ df_filtered' = apply_filters(df, c.date_segment, c.custom_start,
                                           c.custom_end, c.stores, c.channel,
                                           c.categories, c.segments, c.payment_methods)
  /\ pc' = "filtered"
  /\ out' = [op |-> "apply_filters"]
  /\ UNCHANGED <<prog, csv, df, df_prepared, cacheVars>>

\* Revenue & Profit Trend of the Executive Overview page
RevenueTrend ==
  /\ prog = "mini_app" /\ pc = "filtered" /\ HasRows(df_filtered)
  /\ pc' = "rendered"
  /\ out' = [op |-> "trend_data",
             frame |-> trend_data(df_filtered, criteria.date_segment)]
  /\ UNCHANGED <<prog, csv, df, criteria, df_filtered, df_prepared, cacheVars>>

\* Profit Trend Analysis of the Profitability Analysis page
ProfitTrend ==
  /\ prog = "mini_app" /\ pc = "filtered" /\ HasRows(df_filtered)
  /\ pc' = "rendered"
  /\ out' = [op |-> "profit_trend",
             frame |-> profit_trend(df_filtered, criteria.date_segment)]
  /\ UNCHANGED <<prog, csv, df, criteria, df_filtered, df_prepared, cacheVars>>

InitTrend ==
  /\ prog = "mini_app"
  /\ csv \in TablesOf(TrendRows) \ {<<>>}
  /\ InitCommon

NextTrend == LoadMini \/ ApplyFiltersBySegment \/ RevenueTrend \/ ProfitTrend

SpecTrend == InitTrend /\ [][NextTrend]_vars

\* ------------------------------------- filters asked for unknown values
\* a row that differs from BaseRow in every filtered column
OtherRow ==
  [BaseRow EXCEPT !.date = DateText(MaxDate), !.store_id = "S2",
                  !.store_location = "Uptown", !.customer_segment = "Loyal",
                  !.product_category = "Snacks", !.product_name = "Potato Chips",
                  !.payment_method = "UPI", !.channel = "Online"]

\* values that occur in no row of the model's tables
UnknownStore == "Suburban"
UnknownStoreId == "S3"
UnknownChannel == "Wholesale"
UnknownCategory == "Groceries"
UnknownSegment == "New"
UnknownPayment == "Debit Card"

\* a restriction list: empty, an unknown value alone, or a known value with it
ListsWith(known, unknown) == {{}, {unknown}, {known, unknown}}

\* criteria that may name values no row has
CriteriaUnknown ==
  { c \in [date_segment : {"Daily"}, custom_start : Dates, custom_end : Dates,
           stores : ListsWith("Uptown", UnknownStore),
           channel : {"All", "Online", UnknownChannel},
           categories : ListsWith("Snacks", UnknownCategory),
           segments : ListsWith("Loyal", UnknownSegment),
           payment_methods : ListsWith("UPI", UnknownPayment)] :
      Restricted(c) <= MaxRestrict }

\* the arguments filter_data of urbanmart_analysis.py can be called with
ArgsAnalysis ==
  [start_date : {<<>>} \cup { <<d>> : d \in Dates },
   end_date : {<<>>} \cup { <<d>> : d \in Dates },
   store : {<<>>, <<"S2">>, <<UnknownStoreId>>},
   channel : {<<>>, <<"Online">>, <<UnknownChannel>>}]

\* apply_filters called with criteria of CriteriaUnknown
ApplyFiltersUnknown ==
  /\ prog = "mini_app" /\ pc = "loaded"
  /\ \E c \in CriteriaUnknown :
       /\ criteria' = c
       /\ df_filtered' = apply_filters(df, c.date_segment, c.custom_start,
                                       c.custom_end, c.stores, c.channel,
                                       c.categories, c.segments, c.payment_methods)
  /\ pc' = "filtered"
  /\ out' = [op |-> "apply_filters"]
  /\ UNCHANGED <<prog, csv, df, df_prepared, cacheVars>>

\* filter_data of the dashboards called with criteria of CriteriaUnknown
FilterDataUnknown ==
  /\ prog = "final_app" /\ pc = "loaded"
  /\ \E c \in CriteriaUnknown :
       /\ c.segments = {} /\ c.payment_methods = {}
       /\ criteria' = c
       /\ df_filtered' = filter_data(df, c.custom_start, c.custom_end, c.stores,
                                     c.channel, c.categories)
  /\ pc' = "filtered"
  /\ out' = [op |-> "filter_data"]
  /\ UNCHANGED <<prog, csv, df, df_prepared, cacheVars>>

\* filter_data of urbanmart_analysis.py called on the loaded table
FilterDataAnalysis ==
  /\ prog = "final_cli" /\ pc = "loaded"
  /\ \E a \in ArgsAnalysis :
       /\ criteria' = a
       /\ df_filtered' = filter_data_analysis(df, a.start_date, a.end_date,
                                              a.store, a.channel)
  /\ pc' = "filtered"
  /\ out' = [op |-> "filter_data"]
  /\ UNCHANGED <<prog, csv, df, df_prepared, cacheVars>>

InitUnknown ==
  /\ prog \in {"mini_app", "final_app", "final_cli"}
  /\ csv \in TablesOf({BaseRow, OtherRow})
  /\ InitCommon

NextUnknown ==
  \/ LoadMini \/ LoadFinal \/ MainFinalLoad
  \/ ApplyFiltersUnknown \/ FilterDataUnknown \/ FilterDataAnalysis

SpecUnknown == InitUnknown /\ [][NextUnknown]_vars

\* ------------------------------------------------------------ filter claims
\* what the filter contract says of one row under criteria c
Passes(r, c) ==
  /\ r.date # NaT /\ c.custom_start <= r.date /\ r.date <= c.custom_end
  /\ (c.stores # {} => r.store_location \in c.stores)
  /\ (c.categories # {} => r.product_category \in c.categories)
  /\ (c.segments # {} => r.customer_segment \in c.segments)
  /\ (c.payment_methods # {} => r.payment_method \in c.payment_methods)
  /\ (c.channel = "All" \/ r.channel = c.channel)

\* the positions of df whose row passes, in increasing order
RECURSIVE Matching(_, _)
Matching(t, c) ==
  IF t = <<>> THEN <<>>
  ELSE IF Passes(t[Len(t)], c)
       THEN Append(Matching(SubSeq(t, 1, Len(t) - 1), c), t[Len(t)])
       ELSE Matching(SubSeq(t, 1, Len(t) - 1), c)

\* C1: the filter returns exactly the rows inside the inclusive date range
\* whose value is in every non-empty restriction set and whose channel is the
\* selected one (or the selection is "All"): none more, none less.
C1_FilterExact ==
  pc = "filtered" => df_filtered = Matching(df, criteria)

C1_Witness ==
  /\ pc = "filtered" /\ Len(df) = 2 /\ Len(df_filtered) = 1
  /\ criteria.stores # {} /\ criteria.custom_start = criteria.custom_end

\* C10: with empty restriction sets, channel "All" and a date range that
\* covers every row's date, the filter returns exactly its input rows.
C10_EmptyIsNoOp ==
  ( /\ pc = "filtered"
    /\ criteria.stores = {} /\ criteria.categories = {}
    /\ criteria.segments = {} /\ criteria.payment_methods = {}
    /\ criteria.channel = "All"
    /\ \A i \in 1..Len(df) :
         df[i].date # NaT /\ criteria.custom_start <= df[i].date
                          /\ df[i].date <= criteria.custom_end )
  => df_filtered = df

C10_Witness ==
  /\ pc = "filtered" /\ Len(df) = 2 /\ df_filtered = df
  /\ criteria.stores = {} /\ criteria.categories = {}
  /\ criteria.segments = {} /\ criteria.payment_methods = {}
  /\ criteria.channel = "All"
  /\ df[1].store_location # df[2].store_location

\* --------------------------------------------------------- engine claims
\* the columns a grouped result can be keyed by in the model
LabelKeys ==
  {"store_location", "store_id", "product_category", "product_name", "channel",
   "customer_segment", "payment_method"}

C3_DerivedFields ==
  (prog = "mini_app" /\ pc \in {"loaded", "filtered", "rendered"}) =>
    /\ Len(df) = Len(csv)
    /\ \A i \in 1..Len(df) :
         /\ df[i].gross_revenue = csv[i].quantity * csv[i].unit_price
         /\ df[i].line_revenue = df[i].gross_revenue - csv[i].discount_applied
         /\ 100 * df[i].cost = 30 * df[i].gross_revenue
         /\ df[i].profit = df[i].line_revenue - df[i].cost
    /\ (pc # "loaded" /\ Len(df_filtered) > 0) =>
         SumCol(df_filtered, "line_revenue")
           = SumCol(df_filtered, "gross_revenue")
             - SumCol(df_filtered, "discount_applied")

C3_Witness ==
  /\ prog = "mini_app" /\ pc = "filtered" /\ Len(df_filtered) = 2
  /\ df_filtered[1].discount_applied > 0 /\ df_filtered[2].gross_revenue > 0

\* C4: a row with line_revenue = 0 gets profit_margin = 0 from the derive
\* step, never NaN, never an infinity.
C4_ZeroRevenueMarginZero ==
  (prog = "mini_app" /\ pc = "loaded") =>
    \A i \in 1..Len(df) :
       df[i].line_revenue = 0 => IsZero(df[i].profit_margin)

\* the margin column of a grouped frame is 0 wherever the group's revenue is 0
MarginZeroWhereRevenueZero(frame) ==
  \A i \in 1..Len(frame) :
     frame[i].line_revenue = 0 => IsZero(frame[i].profit_margin_pct)

\* C5: every ratio computed from aggregated sums is 0 whenever its denominator
\* is 0: the overall KPIs and the per-group margins alike.
C5_ZeroDenominatorGivesZero ==
  /\ (out.op = "page" /\ out.page = "Executive Overview") =>
       /\ (out.total_revenue = 0 => IsZero(out.profit_margin))
       /\ (out.total_transactions = 0 => IsZero(out.avg_order_value))
  /\ (out.op = "page" /\ out.page = "Sales Performance") =>
       (out.gross_revenue = 0 => IsZero(out.discount_rate))
  /\ (out.op = "page" /\ out.page = "Product Analytics") =>
       MarginZeroWhereRevenueZero(out.category_matrix)
  /\ (out.op = "page" /\ out.page = "Profitability Analysis") =>
       /\ (out.total_revenue = 0 => IsZero(out.overall_margin))
       /\ (out.total_revenue = 0 => IsZero(out.discounts_over_revenue))
       /\ MarginZeroWhereRevenueZero(out.category_profit)
       /\ MarginZeroWhereRevenueZero(out.store_profit)

\* C8: no filter or aggregate operation changes the table it is given: the
\* caller's table has the same columns and cells after the call as before.
C8_NoMutation ==
  [][ /\ out'.op \in {"apply_filters", "filter_data", "compute_total_revenue",
                      "compute_revenue_by_store", "compute_top_n_products",
                      "run_basic_sanity_checks", "prepare_dashboard_data"}
        => df' = df
      /\ out'.op \in {"compute_total_revenue", "compute_revenue_by_store",
                      "compute_top_n_products"}
        => df_prepared' = df_prepared ]_vars

\* the tables a program holds
HeldTables == {df, df_filtered, df_prepared}

\* C9: every row of every table with a line_revenue column has
\* line_revenue = quantity * unit_price - discount_applied.
C9_LineRevenueDerivable ==
  \A t \in HeldTables :
     \A i \in 1..Len(t) :
        "line_revenue" \in DOMAIN t[i] =>
          t[i].line_revenue = t[i].quantity * t[i].unit_price - t[i].discount_applied

C9_Witness ==
  /\ prog = "final_cli" /\ out.op = "compute_total_revenue"
  /\ Len(df_prepared) = 2
  /\ df_prepared[1].discount_applied > 0
  /\ "line_revenue" \in DOMAIN df_prepared[1]
  /\ "line_revenue" \notin ColumnsOf(df)

\* ---------------------------------------------------------- cache claims
\* C6: load+derive runs at most once per key: the first call of a key runs
\* the body and stores the table, every later call returns the stored table.
C6_LoadOncePerKey ==
  /\ \A k \in CacheKeys :
       /\ loads[k] <= 1
       /\ cache[k].has <=> loads[k] = 1
  /\ ret.hit => (cache[ret.key].has /\ ret.table = cache[ret.key].table)

C6_Witness ==
  /\ prog = "final_app" /\ ret.hit /\ loads[ret.key] = 1
  /\ Len(ret.table) = 1
  /\ \E k \in CacheKeys : k # ret.key /\ loads[k] = 1

\* C7: load_data never returns a table derived from content other than the
\* current content of the requested source.
C7_NeverStale ==
  ret # NoRet => ret.table = LoadBody(prog, ret.content)

\* ------------------------------------------------- filter claims, continued
\* C11: for fixed dates and categorical criteria apply_filters returns the
\* same rows for every value of date_segment.
C11_GranularityIndependent ==
  (prog = "mini_app" /\ pc = "filtered") =>
    \A seg \in DateSegments :
       apply_filters(df, seg, criteria.custom_start, criteria.custom_end,
                     criteria.stores, criteria.channel, criteria.categories,
                     criteria.segments, criteria.payment_methods) = df_filtered

C11_Witness ==
  /\ prog = "mini_app" /\ pc = "filtered" /\ criteria.date_segment = "Weekly"
  /\ Len(df) = 2 /\ Len(df_filtered) = 1
  /\ criteria.custom_start = criteria.custom_end

\* C12: a filter call with date_from > date_to fails with InvalidRangeError;
\* it never returns a row set.
C12_InvalidRangeRejected ==
  out.op \in {"apply_filters", "filter_data"} =>
    criteria.custom_start <= criteria.custom_end

\* what the docstring of filter_data (urbanmart_analysis.py) says of one row
\* under the arguments a
PassesAnalysis(r, a) ==
  /\ ToDatetime(r.date) # NaT
  /\ (a.start_date # <<>> => a.start_date[1] <= ToDatetime(r.date))
  /\ (a.end_date # <<>> => ToDatetime(r.date) <= a.end_date[1])
  /\ (a.store # <<>> => r.store_id = a.store[1])
  /\ (a.channel # <<>> => r.channel = a.channel[1])

\* no row of df matches the criteria of the last filter call
NothingMatches ==
  IF prog = "final_cli"
  THEN \A i \in 1..Len(df) : ~PassesAnalysis(df[i], criteria)
  ELSE \A i \in 1..Len(df) : ~Passes(df[i], criteria)

\* C13: a filter call whose criteria match no row, a value that occurs
\* nowhere in the table included, returns the empty row set; it does not raise.
C13_NoMatchGivesEmpty ==
  /\ out.op \in {"apply_filters", "filter_data"} => pc = "filtered"
  /\ (pc = "filtered" /\ NothingMatches) => df_filtered = <<>>

C13_Witness ==
  /\ pc = "filtered" /\ Len(df) = 2 /\ df_filtered = <<>>
  /\ prog = "mini_app" /\ criteria.stores = {UnknownStore}
  /\ criteria.custom_start = 1 /\ criteria.custom_end = MaxDate

\* --------------------------------------------------------- query claims
\* C14: when the filter matched no row the caller shows the no-data warning
\* and stops; a page with KPIs, groupings or top-N tables is rendered only
\* from a filter result with at least one row.
C14_EmptyResultHalts ==
  [][ /\ (pc = "filtered" /\ Len(df_filtered) = 0) =>
           (out'.op = "st.warning" /\ pc' = "stopped")
      /\ out'.op = "page" => (pc = "filtered" /\ Len(df_filtered) > 0) ]_vars

C14_Witness ==
  /\ pc = "stopped" /\ out.op = "st.warning"
  /\ Len(df) = 2 /\ df_filtered = <<>> /\ criteria.stores # {}

\* ---------------------------------------------------------- top-N claims
\* the entries of a frame
Entries(frame) == { frame[i] : i \in 1..Len(frame) }

\* v holds min(n, number of groups) different groups of g, ordered by col,
\* and no group left out beats a group returned
IsTopN(v, g, col, n, ascending) ==
  /\ Len(v) = (IF n < Len(g) THEN n ELSE Len(g))
  /\ Entries(v) \subseteq Entries(g)
  /\ \A i, j \in 1..Len(v) : i # j => v[i].key # v[j].key
  /\ IsSorted(v, col, ascending)
  /\ \A x \in Entries(v), y \in Entries(g) \ Entries(v) :
       IF ascending THEN x[col] <= y[col] ELSE x[col] >= y[col]

\* C15: top-N returns exactly min(n, number of groups) groups in
\* non-increasing order of the summed measure and every returned group's sum
\* is >= the sum of every group left out (mirrored for ascending).
C15_TopNContract ==
  /\ (prog = "mini_cli" /\ out.op = "compute_top_n_products") =>
       IsTopN(out.value, GroupSum(df, "product_name", "line_revenue"),
              "value", out.n, FALSE)
  /\ (prog = "final_cli" /\ out.op = "compute_top_n_products") =>
       IsTopN(out.value, GroupSum(df_prepared, "product_name", "line_revenue"),
              "value", out.n, FALSE)
  /\ out.op = "top_products" =>
       /\ IsTopN(out.top_products, ProductAgg(df_filtered), "line_revenue",
                 out.n, FALSE)
       /\ IsTopN(out.bottom_products, ProductAgg(df_filtered), "line_revenue",
                 out.n, TRUE)

C15_Witness ==
  /\ prog = "mini_cli" /\ out.op = "compute_top_n_products" /\ out.n = 1
  /\ Len(out.value) = 1
  /\ \E y \in Entries(GroupSum(df, "product_name", "line_revenue")) :
       y.value < out.value[1].value

\* the position of a label in the order of the labels
RECURSIVE LabelIndex(_, _)
LabelIndex(k, i) ==
  IF i > Len(LabelOrder) THEN 0
  ELSE IF LabelOrder[i] = k THEN i ELSE LabelIndex(k, i + 1)

\* entries of v with equal col are in label order
TiesInLabelOrder(v, col) ==
  \A i, j \in 1..Len(v) :
     (i < j /\ v[i][col] = v[j][col]) =>
       LabelIndex(v[i].key, 1) < LabelIndex(v[j].key, 1)

C17_DayOrder ==
  out.op = "day_sales" =>
    /\ [i \in 1..Len(out.day_sales) |-> out.day_sales[i].Day]
         = <<"Monday", "Tuesday", "Wednesday", "Thursday", "Friday", "Saturday",
             "Sunday">>
    /\ \A i \in 1..Len(out.day_sales) :
         LET rows == RowsWhere(df_filtered, "day_of_week", out.day_sales[i].Day)
         IN  out.day_sales[i].Revenue
               = (IF rows = <<>> THEN NaN ELSE Num(SumCol(rows, "line_revenue"), 1))

C17_Witness ==
  /\ out.op = "day_sales" /\ Len(df_filtered) = 2
  /\ df_filtered[1].day_of_week = "Thursday"
  /\ df_filtered[2].day_of_week = "Wednesday"

\* C18: every grouping other than day-of-week lists its groups in descending
\* order of summed line_revenue.
C18_RollupsDescending ==
  /\ (out.op = "page" /\ out.page = "Executive Overview") =>
       /\ IsSorted(out.category_performance, "line_revenue", FALSE)
       /\ IsSorted(out.store_performance, "line_revenue", FALSE)
  /\ (out.op = "page" /\ out.page = "Product Analytics") =>
       IsSorted(out.category_matrix, "line_revenue", FALSE)
  /\ out.op = "store_metrics" => IsSorted(out.store_metrics, "line_revenue", FALSE)

\* the margin column of a frame grouped by key is 100 * sum(profit) /
\* sum(line_revenue) over the rows of the group, to two decimals
MarginFromSums(frame, key) ==
  \A i \in 1..Len(frame) :
     LET rows == RowsWhere(df_filtered, key, frame[i].key)
     IN  frame[i].profit_margin_pct
           = RoundSeries2(FloatDiv(100 * SumCol(rows, "profit"),
                                   SumCol(rows, "line_revenue")))

\* C19: the profit margin % of a group is sum(profit) / sum(line_revenue) *
\* 100 over the rows of the group, not the mean of the rows' margins.
C19_MarginFromSums ==
  /\ out.op = "store_metrics" => MarginFromSums(out.store_metrics, "store_location")
  /\ (out.op = "page" /\ out.page = "Product Analytics") =>
       MarginFromSums(out.category_matrix, "product_category")

C19_Witness ==
  /\ out.op = "store_metrics" /\ Len(out.store_metrics) = 1
  /\ Len(df_filtered) = 2
  /\ df_filtered[1].line_revenue > 0 /\ df_filtered[2].line_revenue > 0
  /\ df_filtered[1].line_revenue # df_filtered[2].line_revenue
  /\ df_filtered[1].profit_margin # df_filtered[2].profit_margin
  /\ out.store_metrics[1].profit_margin_pct
       # RoundSeries2(FloatDiv(df_filtered[1].profit_margin[2]
                               + df_filtered[2].profit_margin[2], 200))

\* two floats are the same number
SameNum(x, y) == x[1] = y[1] /\ (x[1] = "num" => x[2] * y[3] = y[2] * x[3])

\* C20: the average basket value of a segment is the mean over the bills of
\* the segment of the bill's summed line_revenue, and the average units per
\* transaction the mean over the transactions of the summed quantity.
C20_TwoLevelBaskets ==
  /\ out.op = "purchase_patterns" =>
       /\ Len(out.avg_basket) = NUnique(df_filtered, "customer_segment")
       /\ \A i \in 1..Len(out.avg_basket) :
            LET rows == RowsWhere(df_filtered, "customer_segment", out.avg_basket[i].key)
            IN  SameNum(out.avg_basket[i].value,
                        FloatDiv(SumCol(rows, "line_revenue"), NUnique(rows, "bill_id")))
  /\ (out.op = "page" /\ out.page = "Product Analytics") =>
       SameNum(out.avg_units_per_transaction,
               FloatDiv(SumCol(df_filtered, "quantity"),
                        NUnique(df_filtered, "transaction_id")))

C20_Witness ==
  /\ out.op = "purchase_patterns" /\ Len(df_filtered) = 2
  /\ df_filtered[1].customer_segment = df_filtered[2].customer_segment
  /\ df_filtered[1].bill_id = df_filtered[2].bill_id
  /\ df_filtered[1].transaction_id # df_filtered[2].transaction_id


\* ------------------------------------------------------------ KPI claims
\* C22: the transaction count of a filtered view, and the denominator of the
\* average revenue per transaction, is the number of distinct transaction_id
\* values of the view, not its number of rows.
C22_TransactionsDistinct ==
  (out.op = "page" /\ out.page \in {"Executive Overview", "Sales Dashboard"}) =>
    LET distinct == Cardinality({ df_filtered[i].transaction_id :
                                    i \in 1..Len(df_filtered) })
        revenue == SumCol(df_filtered, "line_revenue")
    IN  /\ out.total_transactions = distinct
        /\ out.page = "Executive Overview" =>
             out.avg_order_value = FloatDiv(revenue, 1000 * distinct)
        /\ out.page = "Sales Dashboard" =>
             out.avg_revenue_per_txn = FloatDiv(revenue, 1000 * distinct)

\* ----------------------------------------------------------- date claims
\* C24: a row whose date is not a calendar date makes loading fail; no table
\* is loaded with a missing date in place of the unparseable value.
C24_BadDateFatal ==
  /\ (pc # "start" /\ \E i \in 1..Len(csv) : csv[i].date = BadDate) =>
       (pc = "stopped" /\ out.op = "st.error")
  /\ \A i \in 1..Len(df) : df[i].date # NaT


\* ---------------------------------------------------- filter algebra claims
\* the filter of the running dashboard applied to t with criteria c
FilterWith(t, c) ==
  IF prog = "mini_app"
  THEN apply_filters(t, c.date_segment, c.custom_start, c.custom_end, c.stores,
                     c.channel, c.categories, c.segments, c.payment_methods)
  ELSE filter_data(t, c.custom_start, c.custom_end, c.stores, c.channel,
                   c.categories)

RECURSIVE IsSubSeq(_, _)
\* s is t with some rows left out, the others in their order
IsSubSeq(s, t) ==
  IF s = <<>> THEN TRUE
  ELSE IF t = <<>> THEN FALSE
  ELSE IF Head(s) = Head(t) THEN IsSubSeq(Tail(s), Tail(t))
  ELSE IsSubSeq(s, Tail(t))

\* the criteria a second filter call is given: at most one field restricted
SecondCriteria ==
  StoreCriteria
  \cup { [NoCriteria EXCEPT !.custom_start = a, !.custom_end = b] : a, b \in Dates }
  \cup { [NoCriteria EXCEPT !.channel = ch] : ch \in Channels }
  \cup { [NoCriteria EXCEPT !.categories = k] : k \in SUBSET Categories }
  \cup { [NoCriteria EXCEPT !.segments = g] : g \in SUBSET Segments }
  \cup { [NoCriteria EXCEPT !.payment_methods = m] : m \in SUBSET PaymentMethods }

\* C29: filtering a filtered view again with the same criteria changes
\* nothing, filtering by two criteria gives the same rows in the same order
\* whichever is applied first, and every result is a sub-sequence of the
\* input rows in their original order.
C29_FilterAlgebra ==
  pc = "filtered" =>
    /\ FilterWith(df_filtered, criteria) = df_filtered
    /\ IsSubSeq(df_filtered, df)
    /\ \A c2 \in SecondCriteria :
         /\ FilterWith(FilterWith(df, criteria), c2)
              = FilterWith(FilterWith(df, c2), criteria)
         /\ IsSubSeq(FilterWith(df_filtered, c2), df)

C29_Witness ==
  /\ pc = "filtered" /\ Len(df) = 2 /\ Len(df_filtered) = 2
  /\ df_filtered[1] # df_filtered[2]
  /\ criteria.stores # {} /\ criteria.channel = "All"
  /\ \E c2 \in SecondCriteria :
       c2.channel # "All" /\ Len(FilterWith(df_filtered, c2)) = 1


\* ------------------------------------------------- distinct-count claims
\* the distinct values of a column of the view
DistinctIn(col) == { df_filtered[i][col] : i \in 1..Len(df_filtered) }

\* no value of the column has rows of the view in two different stores
OneStoreEach(col) ==
  \A i, j \in 1..Len(df_filtered) :
     df_filtered[i][col] = df_filtered[j][col] =>
       df_filtered[i].store_location = df_filtered[j].store_location

\* C30: the per-store distinct transaction counts of a view add up to at
\* least the distinct transaction count of the view, and to exactly that
\* count when and only when no transaction has rows in two stores; the same
\* holds for the distinct customer counts.
C30_DistinctNotAdditive ==
  out.op = "store_metrics" =>
    \A col \in {"transaction_id", "customer_id"} :
       LET total == SumCol(out.store_metrics, col)
           whole == Cardinality(DistinctIn(col))
       IN  /\ total >= whole
           /\ (total = whole) <=> OneStoreEach(col)

C30_Witness ==
  /\ out.op = "store_metrics" /\ Len(out.store_metrics) = 2
  /\ SumCol(out.store_metrics, "transaction_id") = 2
  /\ Cardinality(DistinctIn("transaction_id")) = 1
  /\ SumCol(out.store_metrics, "customer_id") = 2
  /\ Cardinality(DistinctIn("customer_id")) = 2


\* ------------------------------------------------------- deriver claims
\* C23: deriving is idempotent: load_data's column computations,
\* add_line_revenue_column and prepare_dashboard_data leave their own output
\* as it is.
C23_DeriveIdempotent ==
  /\ (prog = "mini_app" /\ pc \in {"loaded", "filtered", "rendered"}) =>
       load_data_mini(df) = df
  /\ (prog = "final_cli" /\ pc \in {"menu", "exit"}) =>
       /\ add_line_revenue_column(df_prepared) = df_prepared
       /\ prepare_dashboard_data(df_prepared).df = df_prepared
       /\ add_line_revenue_column(add_line_revenue_column(df))
            = add_line_revenue_column(df)

C23_Witness ==
  /\ prog = "mini_app" /\ pc = "loaded" /\ Len(df) = 2
  /\ df[1].discount_applied > 0 /\ df[1].date # NaT
  /\ df[1].line_revenue # df[2].line_revenue

\* ----------------------------------------------------------- CLI claims
\* the table the menu starts with
FreshTable ==
  IF prog = "mini_cli" THEN csv
  ELSE prepare_dashboard_data(run_basic_sanity_checks(csv)).df

\* C25: the CLI process ends with exit code 0 after menu choice 4 and with
\* a non-zero exit code when the source file is missing.
C25_ExitCodes ==
  out.op = "sys.exit" =>
    /\ (out.after.op = "exit") => out.code = 0
    /\ (DATA_FILE \notin DOMAIN files) => out.code # 0

\* C27: run_cli_menu of the Mini_Project CLI leaves its loop only on choice
\* '4' or a KeyboardInterrupt; every other input and the end of input show
\* the menu again.
C27_LoopLeftOnlyByExit ==
  [][ (prog = "mini_cli" /\ pc = "menu") =>
        /\ (pc' # "menu") <=>
             \/ out' = [op |-> "exit"]
             \/ out' = [op |-> "input", event |-> "KeyboardInterrupt"]
        /\ pc' \in {"menu", "exit"} ]_vars

C27_Witness ==
  /\ prog = "mini_cli" /\ pc = "menu"
  /\ out = [op |-> "input", event |-> "EOFError"]
  /\ Len(df) = 2 /\ "line_revenue" \in ColumnsOf(df)

\* C28: after any sequence of menu choices 1, 2 and 3 each query returns the
\* value it returns as the first query on the freshly loaded table.
C28_QueriesRepeatable ==
  /\ (prog = "mini_cli" /\ out.op = "compute_total_revenue") =>
       out.value = compute_total_revenue_mini(FreshTable).value
  /\ (prog = "mini_cli" /\ out.op = "compute_revenue_by_store") =>
       out.value = compute_revenue_by_store_mini(FreshTable).value
  /\ (prog = "mini_cli" /\ out.op = "compute_top_n_products") =>
       out.value \in compute_top_n_products_mini(FreshTable, 5).values
  /\ (prog = "final_cli" /\ out.op = "compute_total_revenue") =>
       out.value = compute_total_revenue_final(FreshTable)
  /\ (prog = "final_cli" /\ out.op = "compute_revenue_by_store") =>
       out.value = compute_revenue_by_store_final(FreshTable)
  /\ (prog = "final_cli" /\ out.op = "compute_top_n_products") =>
       out.value \in compute_top_n_products_final(FreshTable, 5)

C28_Witness ==
  /\ prog = "mini_cli" /\ out.op = "compute_revenue_by_store"
  /\ Len(df) = 2 /\ df[1].discount_applied > 0 /\ df[1].unit_price > 0
  /\ "line_revenue" \in ColumnsOf(df) /\ "line_revenue" \notin ColumnsOf(csv)


\* ----------------------------------------------------------- trend claims
\* the calendar key of a date for a granularity
CalendarKey(d, date_segment) ==
  CASE date_segment = "Daily" -> <<d>>
    [] date_segment = "Weekly" -> <<Calendar(d).year, Calendar(d).week>>
    [] date_segment = "Monthly" -> <<Calendar(d).year * 100 + Calendar(d).month>>
    [] date_segment = "Quarterly" -> <<Calendar(d).year * 10 + Calendar(d).quarter>>
    [] OTHER -> <<Calendar(d).year>>

\* C21: the revenue-and-profit trend and the profit trend group the view by
\* the calendar key of the selected granularity (date, (year, week),
\* year_month, year_quarter, year), each group with the sums of its rows.
C21_TrendKeys ==
  out.op \in {"trend_data", "profit_trend"} =>
    /\ { out.frame[i].key : i \in 1..Len(out.frame) }
         = { CalendarKey(df_filtered[j].date, criteria.date_segment) :
               j \in 1..Len(df_filtered) }
    /\ \A i \in 1..Len(out.frame) :
         out.frame[i].line_revenue
           = SumCol(SelectSeq(df_filtered,
                              LAMBDA r : CalendarKey(r.date, criteria.date_segment)
                                           = out.frame[i].key),
                    "line_revenue")

\* the Monday that starts the ISO week of a day
MondayOf(d) == d - ((d + 1) % 7)

\* C26: every group of the Weekly trend covers one calendar week: rows of one
\* group are at most 6 days apart, and rows of one ISO week are in one group.
C26_WeeklyGroupsOneWeek ==
  (out.op = "trend_data" /\ criteria.date_segment = "Weekly") =>
    /\ Len(out.frame) = Cardinality({ MondayOf(df_filtered[j].date) :
                                        j \in 1..Len(df_filtered) })
    /\ \A i, j \in 1..Len(df_filtered) :
         LET same == <<df_filtered[i].year, df_filtered[i].week>>
                       = <<df_filtered[j].year, df_filtered[j].week>>
         IN  /\ same => df_filtered[i].date - df_filtered[j].date <= 6
             /\ MondayOf(df_filtered[i].date) = MondayOf(df_filtered[j].date) => same

=============================================================================
